---------------------------- MODULE Spec2Model ----------------------------
(***************************************************************************)
(* A model of the German battery storage dashboard                          *)
(* (battery_dashboard.py): the snapshot selector and loader                 *)
(* (load_battery_data) with its st.cache_data cache, the normalizer         *)
(* (preprocess_data), the filter step of main, create_summary_stats,        *)
(* create_map and the script flow of main; and of the two fetchers          *)
(* (mastr.py, collect_dashboard_data.py): the paged fetch and the write of  *)
(* the snapshot file.                                                       *)
(*                                                                          *)
(* File names are sequences of character codes, so that str.startswith,     *)
(* str.endswith and the ordering used by sorted() are computed, not         *)
(* assumed.  Numbers are exact rationals n/d (d > 0, lowest terms); a       *)
(* pandas NaN / None / NaT cell is the cell of kind "nan".                  *)
(***************************************************************************)
EXTENDS Integers, Sequences, FiniteSets, TLC

VARIABLES
    listing,      \* os.listdir('.'): the names in the working directory
    content,      \* what the snapshot file holds: [kind, recs]
    pc,           \* the position of main() in the script
    opened,       \* the names passed to open(), in order
    raised,       \* the exception caught inside load_battery_data, or "none"
    errors,       \* the st.error reports made so far
    df,           \* the value load_battery_data returned: [none, cols, rows]
    sel,          \* the widget values read by main
    df_filtered,  \* main's df_filtered
    df_map,       \* create_map's df_map (the copy without missing coordinates)
    rendered,     \* the display steps main has executed, in order
    stats,        \* what the calls of create_summary_stats returned, in order
    api,          \* the records the registry API holds for the fetcher's filter
    fetch,        \* the fetcher process: its script, arguments and locals
    out,          \* the file the fetcher writes: [state, recs]
    cache,        \* the entry st.cache_data keeps for load_battery_data
    runs          \* the number of runs of the script in this process

vars == <<listing, content, pc, opened, raised, errors, df, sel,
          df_filtered, df_map, rendered, stats, api, fetch, out, cache, runs>>

-----------------------------------------------------------------------------
(* Bounds of the model *)

\* the most records the registry API holds
MaxRemote == 3

\* the largest --page-size
MaxPageSize == 2

\* the most runs of the script in one process
MaxRuns == 3

\* the longest directory listing
MaxFiles == 3
\* the largest number of records in a snapshot
MaxRecords == 2

-----------------------------------------------------------------------------
(* Sequence helpers *)

Range(s) == {s[i] : i \in DOMAIN s}

Last(s) == s[Len(s)]

Min2(a, b) == IF a <= b THEN a ELSE b

\* all sequences over S of length at most n
SeqsUpTo(S, n) == UNION {[1..k -> S] : k \in 0..n}

\* all sequences over S of length at most n without repetition
DistinctSeqsUpTo(S, n) ==
    {s \in SeqsUpTo(S, n) : \A i, j \in DOMAIN s : i # j => s[i] # s[j]}

-----------------------------------------------------------------------------
(* File names *)

\* "all_batterie_speicher_"
PrefixAll == <<97, 108, 108, 95, 98, 97, 116, 116, 101, 114, 105, 101, 95,
    115, 112, 101, 105, 99, 104, 101, 114, 95>>
\* "dashboard_batterie_speicher_"
PrefixDashboard == <<100, 97, 115, 104, 98, 111, 97, 114, 100, 95, 98, 97,
    116, 116, 101, 114, 105, 101, 95, 115, 112, 101, 105, 99, 104, 101, 114,
    95>>
\* ".json"
SuffixJson == <<46, 106, 115, 111, 110>>
\* "dashboard_batterie_speicher_2024-01-01.json"
FileDashboardJan == <<100, 97, 115, 104, 98, 111, 97, 114, 100, 95, 98, 97,
    116, 116, 101, 114, 105, 101, 95, 115, 112, 101, 105, 99, 104, 101, 114,
    95, 50, 48, 50, 52, 45, 48, 49, 45, 48, 49, 46, 106, 115, 111, 110>>
\* "all_batterie_speicher_2024-03-05.json"
FileAllMar == <<97, 108, 108, 95, 98, 97, 116, 116, 101, 114, 105, 101, 95,
    115, 112, 101, 105, 99, 104, 101, 114, 95, 50, 48, 50, 52, 45, 48, 51,
    45, 48, 53, 46, 106, 115, 111, 110>>
\* "all_batterie_speicher_>=100000kW_1000000kWh.json" (mastr.py, defaults)
FileMastrDefault == <<97, 108, 108, 95, 98, 97, 116, 116, 101, 114, 105,
    101, 95, 115, 112, 101, 105, 99, 104, 101, 114, 95, 62, 61, 49, 48, 48,
    48, 48, 48, 107, 87, 95, 49, 48, 48, 48, 48, 48, 48, 107, 87, 104, 46,
    106, 115, 111, 110>>
\* "all_batterie_speicher_all_tech_>=10000kW_10000kWh.json"
\* (collect_dashboard_data.py, defaults)
FileCollectDefault == <<97, 108, 108, 95, 98, 97, 116, 116, 101, 114, 105,
    101, 95, 115, 112, 101, 105, 99, 104, 101, 114, 95, 97, 108, 108, 95,
    116, 101, 99, 104, 95, 62, 61, 49, 48, 48, 48, 48, 107, 87, 95, 49, 48,
    48, 48, 48, 107, 87, 104, 46, 106, 115, 111, 110>>
\* "all_batterie_speicher_2024-03-05.json.bak"
FileAllBak == <<97, 108, 108, 95, 98, 97, 116, 116, 101, 114, 105, 101, 95,
    115, 112, 101, 105, 99, 104, 101, 114, 95, 50, 48, 50, 52, 45, 48, 51,
    45, 48, 53, 46, 106, 115, 111, 110, 46, 98, 97, 107>>
\* "zz_batterie_speicher_2024.json"
FileOtherJson == <<122, 122, 95, 98, 97, 116, 116, 101, 114, 105, 101, 95,
    115, 112, 101, 105, 99, 104, 101, 114, 95, 50, 48, 50, 52, 46, 106, 115,
    111, 110>>
\* "battery_dashboard.py"
FileScript == <<98, 97, 116, 116, 101, 114, 121, 95, 100, 97, 115, 104, 98,
    111, 97, 114, 100, 46, 112, 121>>
\* "my_all_batterie_speicher_1.json"
FileInnerPrefix == <<109, 121, 95, 97, 108, 108, 95, 98, 97, 116, 116, 101,
    114, 105, 101, 95, 115, 112, 101, 105, 99, 104, 101, 114, 95, 49, 46,
    106, 115, 111, 110>>

\* the names a directory listing is drawn from
FileNames == {FileDashboardJan, FileAllMar, FileMastrDefault,
              FileCollectDefault, FileAllBak, FileOtherJson, FileScript,
              FileInnerPrefix}

\* str.startswith
StartsWith(f, p) == Len(f) >= Len(p) /\ SubSeq(f, 1, Len(p)) = p

\* str.endswith
EndsWith(f, s) ==
    Len(f) >= Len(s) /\ SubSeq(f, Len(f) - Len(s) + 1, Len(f)) = s

\* Python's str comparison a < b: by code point at the first difference,
\* a proper prefix being smaller
RECURSIVE StrLessFrom(_, _, _)
StrLessFrom(a, b, i) ==
    IF i > Len(a) THEN i <= Len(b)
    ELSE IF i > Len(b) THEN FALSE
    ELSE IF a[i] # b[i] THEN a[i] < b[i]
    ELSE StrLessFrom(a, b, i + 1)

StrLess(a, b) == StrLessFrom(a, b, 1)

\* insertion of x into the ascending list s, after the elements equal to it
RECURSIVE InsertSorted(_, _)
InsertSorted(x, s) ==
    IF s = <<>> THEN <<x>>
    ELSE IF StrLess(x, Head(s)) THEN <<x>> \o s
    ELSE <<Head(s)>> \o InsertSorted(x, Tail(s))

\* sorted(names)
RECURSIVE Sorted(_)
Sorted(s) ==
    IF s = <<>> THEN <<>>
    ELSE InsertSorted(Last(s), Sorted(SubSeq(s, 1, Len(s) - 1)))

\* IsDataFile without its endswith('.json') test
IsDataFileAnySuffix(f) ==
    StartsWith(f, PrefixAll) \/ StartsWith(f, PrefixDashboard)

\* the condition of the list comprehension of load_battery_data
IsDataFile(f) ==
    /\ StartsWith(f, PrefixAll) \/ StartsWith(f, PrefixDashboard)
    /\ EndsWith(f, SuffixJson)

\* data_files = [f for f in os.listdir('.') if ...]
DataFiles(names) == SelectSeq(names, IsDataFile)

\* data_files[-1]: the last name listed, without sorted()
LatestFileUnsorted(data_files) == Last(data_files)

\* latest_file = sorted(data_files)[-1]
LatestFile(data_files) == Last(Sorted(data_files))

-----------------------------------------------------------------------------
(* Cells: JSON values and pandas values *)

\* kinds of a raw JSON cell: "absent" (the key is not in the record),
\* "null", "num" (a JSON number), "text" (a JSON string that is no number),
\* "numtext" (a JSON string of a decimal number), "datetext" (the string
\* "/Date(<n>)/").  Kinds of a pandas cell: "nan" (NaN, None, NaT), "num",
\* "text", "numtext", "datetext", "ts" (a timestamp, n = epoch ms).
Absent == [k |-> "absent", n |-> 0, d |-> 1, s |-> ""]
Null == [k |-> "null", n |-> 0, d |-> 1, s |-> ""]
NaN == [k |-> "nan", n |-> 0, d |-> 1, s |-> ""]
Num(x) == [k |-> "num", n |-> x, d |-> 1, s |-> ""]
Text(str) == [k |-> "text", n |-> 0, d |-> 1, s |-> str]
NumText(x) == [k |-> "numtext", n |-> x, d |-> 1, s |-> ""]
DateText(ms) == [k |-> "datetext", n |-> ms, d |-> 1, s |-> ""]
Ts(ms) == [k |-> "ts", n |-> ms, d |-> 1, s |-> ""]

IsStr(c) == c.k \in {"text", "numtext", "datetext"}
IsNum(c) == c.k = "num"
IsNaN(c) == c.k = "nan"

Abs(x) == IF x < 0 THEN -x ELSE x

RECURSIVE GCD(_, _)
GCD(a, b) == IF b = 0 THEN a ELSE GCD(b, a % b)

\* the number n/d (d # 0) as a cell in lowest terms with a positive
\* denominator
Rat(n, d) ==
    LET g == GCD(Abs(n), Abs(d))
        sg == IF d < 0 THEN -1 ELSE 1
    IN [k |-> "num", n |-> sg * (n \div g), d |-> sg * (d \div g), s |-> ""]

\* comparisons of numeric cells; a comparison with NaN is False
NumLT(a, b) == IsNum(a) /\ IsNum(b) /\ a.n * b.d < b.n * a.d
NumLE(a, b) == IsNum(a) /\ IsNum(b) /\ a.n * b.d <= b.n * a.d
NumGE(a, b) == NumLE(b, a)

\* Series / scalar
DivScalar(c, x) == IF IsNum(c) THEN Rat(c.n, c.d * x) ELSE NaN

\* Series / Series, elementwise (the divisor is never 0 where it is used:
\* 0 has been replaced by NaN)
DivCells(a, b) ==
    IF IsNum(a) /\ IsNum(b) /\ b.n # 0 THEN Rat(a.n * b.d, a.d * b.n)
    ELSE NaN

-----------------------------------------------------------------------------
(* Columns *)

date_columns == {"DatumLetzteAktualisierung", "EinheitRegistrierungsdatum",
                 "InbetriebnahmeDatum", "GeplantesInbetriebnahmeDatum"}

numeric_columns == {"Bruttoleistung", "Nettonennleistung",
                    "NutzbareSpeicherkapazitaet"}

coordinate_columns == {"Breitengrad", "Laengengrad"}

\* the keys a raw record of the model may hold
RawCols == date_columns \cup numeric_columns \cup coordinate_columns \cup
           {"EinheitName", "BetriebsStatusName", "Bundesland",
            "AnlagenbetreiberName", "NetzbetreiberNamen",
            "Batterietechnologie"}

DerivedCols == {"Power_MW", "Capacity_MWh", "Duration_hours",
                "BatteryTechnologyName", "Power_Category",
                "Capacity_Category"}

AllCols == RawCols \cup DerivedCols

\* BATTERY_TECH_MAPPING
BATTERY_TECH_MAPPING ==
    [c \in 727..732 |->
        CASE c = 727 -> "Lithium-Batterie"
          [] c = 728 -> "Blei-Batterie"
          [] c = 729 -> "Redox-Flow-Batterie"
          [] c = 730 -> "Hochtemperaturbatterie"
          [] c = 731 -> "Nickel-Cadmium- / Nickel-Metallhydridbatterie"
          [] c = 732 -> "Sonstige Batterie"]

-----------------------------------------------------------------------------
(* Data frames: [cols, rows], each row a function from AllCols to cells;  *)
(* a column that is not in cols holds Absent in every row.                *)

EmptyFrame == [cols |-> {}, rows |-> <<>>]

\* pd.DataFrame(list of dicts): the columns are the keys of the records, a
\* key missing from a record (or null) gives NaN / None
FrameOfRecords(recs) ==
    LET cols == {c \in RawCols : \E i \in DOMAIN recs : recs[i][c].k # "absent"}
    IN [cols |-> cols,
        rows |-> [i \in DOMAIN recs |->
                    [c \in AllCols |->
                        IF c \notin cols THEN Absent
                        ELSE IF recs[i][c].k \in {"absent", "null"} THEN NaN
                        ELSE recs[i][c]]]]

\* DataFrame.empty: no rows or no columns
FrameEmpty(f) == f.rows = <<>> \/ f.cols = {}

\* df[c] = vals, vals holding one cell per row
WithColumn(f, c, vals) ==
    [cols |-> f.cols \cup {c},
     rows |-> [i \in DOMAIN f.rows |-> [f.rows[i] EXCEPT ![c] = vals[i]]]]


\* Series.str of column c exists: pandas refuses the accessor (raises
\* AttributeError) for a column of numeric dtype, which is what a column
\* with numbers and no string becomes
StrAccessorOk(f, c) ==
    \/ \E i \in DOMAIN f.rows : IsStr(f.rows[i][c])
    \/ ~ \E i \in DOMAIN f.rows : IsNum(f.rows[i][c])

\* pd.to_datetime(s.str.replace('/Date(', '').str.replace(')/', ''),
\*                unit='ms', errors='coerce'), one cell
ToDatetime(c) ==
    IF c.k \in {"datetext", "numtext"} THEN Ts(c.n) ELSE NaN

\* pd.to_numeric(s, errors='coerce'), one cell
ToNumeric(c) ==
    IF c.k = "num" THEN c
    ELSE IF c.k = "numtext" THEN Num(c.n)
    ELSE NaN

\* Series.replace(0, float('nan')), one cell
ReplaceZero(c) == IF IsNum(c) /\ c.n = 0 THEN NaN ELSE c

\* Series.fillna(v), one cell
FillNa(c, v) == IF IsNaN(c) THEN v ELSE c

\* Series.map(BATTERY_TECH_MAPPING), one cell
MapTech(c) ==
    IF IsNum(c) /\ c.d = 1 /\ c.n \in DOMAIN BATTERY_TECH_MAPPING
    THEN Text(BATTERY_TECH_MAPPING[c.n])
    ELSE NaN

\* the finite bin edges of pd.cut; the last edge is float('inf')
CutBins == <<0, 1, 10, 100, 1000>>

PowerLabels == <<"<1 MW", "1-10 MW", "10-100 MW", "100-1000 MW", ">1000 MW">>

CapacityLabels ==
    <<"<1 MWh", "1-10 MWh", "10-100 MWh", "100-1000 MWh", ">1000 MWh">>

\* bins.searchsorted(x, side='right'), as pd.cut(..., right=False) uses
SearchSortedRight(c) ==
    Cardinality({i \in DOMAIN CutBins : NumLE(Num(CutBins[i]), c)})

\* bins.searchsorted(x, side='left'): the number of edges below x (no
\* finite x is above the edge inf)
SearchSortedLeft(c) ==
    Cardinality({i \in DOMAIN CutBins : NumLT(Num(CutBins[i]), c)})

\* pd.cut(x, bins, labels), one cell: NaN for NaN and for ids = 0
Cut(c, labels) ==
    IF ~IsNum(c) \/ SearchSortedLeft(c) = 0 THEN NaN
    ELSE Text(labels[SearchSortedLeft(c)])

-----------------------------------------------------------------------------
(* preprocess_data *)

PowerMW(row) == DivScalar(row["Bruttoleistung"], 1000)

CapacityMWh(row) == DivScalar(row["NutzbareSpeicherkapazitaet"], 1000)

DurationHours(row) ==
    FillNa(DivCells(row["Capacity_MWh"], ReplaceZero(row["Power_MW"])), Num(0))

\* the lookup without its fillna('Unbekannt')
TechnologyNameNoDefault(row) == MapTech(row["Batterietechnologie"])

TechnologyName(row) == FillNa(MapTech(row["Batterietechnologie"]), Text("Unbekannt"))

PowerCategory(row) == Cut(row["Power_MW"], PowerLabels)

CapacityCategory(row) == Cut(row["Capacity_MWh"], CapacityLabels)

\* the loop over date_columns: the columns that are present are converted
CoerceDates(f) ==
    [f EXCEPT !.rows = [i \in DOMAIN f.rows |->
        [c \in AllCols |->
            IF c \in date_columns \cap f.cols THEN ToDatetime(f.rows[i][c])
            ELSE f.rows[i][c]]]]

\* the loop over numeric_columns and the two coordinate columns
CoerceNumbers(f) ==
    [f EXCEPT !.rows = [i \in DOMAIN f.rows |->
        [c \in AllCols |->
            IF c \in (numeric_columns \cup coordinate_columns) \cap f.cols
            THEN ToNumeric(f.rows[i][c])
            ELSE f.rows[i][c]]]]

\* lines 108-110: the technology name, only where the column exists
AddTechnologyName(f) ==
    IF "Batterietechnologie" \in f.cols
    THEN WithColumn(f, "BatteryTechnologyName",
                    [i \in DOMAIN f.rows |-> TechnologyName(f.rows[i])])
    ELSE f

\* lines 99-123, once both source columns are known to exist
DeriveColumns(f) ==
    LET f1 == WithColumn(f, "Power_MW",
                         [i \in DOMAIN f.rows |-> PowerMW(f.rows[i])])
        f2 == WithColumn(f1, "Capacity_MWh",
                         [i \in DOMAIN f1.rows |-> CapacityMWh(f1.rows[i])])
        f3 == WithColumn(f2, "Duration_hours",
                         [i \in DOMAIN f2.rows |-> DurationHours(f2.rows[i])])
        f4 == AddTechnologyName(f3)
        f5 == WithColumn(f4, "Power_Category",
                         [i \in DOMAIN f4.rows |-> PowerCategory(f4.rows[i])])
    IN WithColumn(f5, "Capacity_Category",
                  [i \in DOMAIN f5.rows |-> CapacityCategory(f5.rows[i])])

\* the exception preprocess_data raises on frame f, or "none"
PreprocessRaises(f) ==
    IF FrameEmpty(f) THEN "none"
    ELSE IF \E c \in date_columns \cap f.cols : ~StrAccessorOk(f, c)
    THEN "AttributeError"
    ELSE IF "Bruttoleistung" \notin f.cols
            \/ "NutzbareSpeicherkapazitaet" \notin f.cols
    THEN "KeyError"
    ELSE "none"

\* preprocess_data with the rows without coordinates dropped in it
preprocess_data_dropna(f) ==
    IF FrameEmpty(f) THEN f
    ELSE LET g == DeriveColumns(CoerceNumbers(CoerceDates(f)))
         IN [g EXCEPT !.rows =
                SelectSeq(g.rows, LAMBDA r : ~IsNaN(r["Breitengrad"])
                                             /\ ~IsNaN(r["Laengengrad"]))]

\* the frame preprocess_data returns when it raises nothing
preprocess_data(f) ==
    IF FrameEmpty(f) THEN f
    ELSE DeriveColumns(CoerceNumbers(CoerceDates(f)))

-----------------------------------------------------------------------------
(* load_battery_data *)

\* the kinds of content of a snapshot file: text that is no JSON
\* ("malformed"), a JSON array of objects ("array"), null, a string, a
\* number, the object {} ("object_empty"), an object of scalars such as
\* {"a": 1} ("object_scalars"), an object of equally long arrays such as
\* {"Bruttoleistung": [5000]} ("object_columns": recs are its rows)
ContentKinds == {"malformed", "array", "null", "string", "number",
                 "object_empty", "object_scalars", "object_columns"}

\* json.load raises JSONDecodeError
JsonLoadRaises(cont) == cont.kind = "malformed"

\* pd.DataFrame(data) raises ValueError: a str or a number ("DataFrame
\* constructor not properly called!"), a dict of scalars ("If using all
\* scalar values, you must pass an index")
DataFrameRaises(cont) == cont.kind \in {"string", "number", "object_scalars"}

\* pd.DataFrame(data) where it raises nothing: None and {} give the empty
\* frame, a dict of arrays gives one column per key
DataFrame(cont) ==
    IF cont.kind \in {"array", "object_columns"} THEN FrameOfRecords(cont.recs)
    ELSE EmptyFrame

\* what load_battery_data returned: None, or a frame
NoneResult == [none |-> TRUE, cols |-> {}, rows |-> <<>>]

FrameResult(f) == [none |-> FALSE, cols |-> f.cols, rows |-> f.rows]

\* the exception the try block of load_battery_data catches after the file
\* has been opened, or "none"
CaughtException(cont) ==
    IF JsonLoadRaises(cont) THEN "JSONDecodeError"
    ELSE IF DataFrameRaises(cont) THEN "ValueError"
    ELSE PreprocessRaises(DataFrame(cont))

\* load_battery_data(), on the directory listing names, the selected file
\* holding cont: the names opened, the exception caught, the st.error made
\* and the value returned
load_battery_data(names, cont) ==
    LET data_files == DataFiles(names) IN
    IF data_files = <<>>
    THEN [opened |-> <<>>, raised |-> "none", error |-> <<"no_data_files">>,
          result |-> NoneResult]
    ELSE IF CaughtException(cont) # "none"
    THEN [opened |-> <<LatestFile(data_files)>>,
          raised |-> CaughtException(cont),
          error |-> <<"error_loading_data">>,
          result |-> NoneResult]
    ELSE [opened |-> <<LatestFile(data_files)>>, raised |-> "none",
          error |-> <<>>,
          result |-> FrameResult(preprocess_data(DataFrame(cont)))]

-----------------------------------------------------------------------------
(* The fetchers: mastr.py and collect_dashboard_data.py *)

\* the fetcher process before it has been started
IdleFetcher ==
    [script |-> "none", page_size |-> 1, pc |-> "idle", page |-> 1,
     all_units |-> <<>>, batteries |-> <<>>, logged |-> <<>>]

\* the fetcher process at the first line of main of script, with --page-size
BeforeMain(script, page_size) ==
    [IdleFetcher EXCEPT !.script = script, !.page_size = page_size,
                        !.pc = "main"]

\* the fetcher's file: not opened by this run ("none"), opened for writing
\* and not closed yet ("partial": what it holds is a proper prefix of the
\* JSON text, the empty text to begin with), or closed ("complete")
NoOutput == [state |-> "none", recs |-> <<>>]

\* out_file with the default arguments
OutFile(script) ==
    IF script = "mastr" THEN FileMastrDefault ELSE FileCollectDefault

\* the "Data" of the response to the request for page p with pageSize
\* page_size, the API holding remote
Page(remote, page_size, p) ==
    SubSeq(remote, (p - 1) * page_size + 1, Min2(p * page_size, Len(remote)))

battery_tech_codes == 727..732

\* [unit for unit in all_units
\*       if unit.get('Batterietechnologie') in battery_tech_codes]
FilterBatteryTech(all_units) ==
    SelectSeq(all_units, LAMBDA u :
        /\ IsNum(u["Batterietechnologie"])
        /\ u["Batterietechnologie"].d = 1
        /\ u["Batterietechnologie"].n \in battery_tech_codes)

\* what fetch_all_batteries of script returns, all_units being accumulated
ReturnedUnits(script, all_units) ==
    IF script = "collect" THEN FilterBatteryTech(all_units) ELSE all_units

\* what a reader of the file the fetcher writes gets
OutContent ==
    IF out.state = "partial" THEN [kind |-> "malformed", recs |-> <<>>]
    ELSE [kind |-> "array", recs |-> out.recs]

\* what the file load_battery_data selects holds: the fetcher's file once
\* the fetcher has opened it, the snapshot of the directory otherwise
SnapshotContent ==
    IF /\ out.state # "none"
       /\ DataFiles(listing) # <<>>
       /\ LatestFile(DataFiles(listing)) = OutFile(fetch.script)
    THEN OutContent
    ELSE content

\* main of the fetcher up to the call of fetch_all_batteries: without
\* MASTR_API_KEY the script exits
FetcherMain ==
    /\ fetch.pc = "main"
    /\ \E has_key \in BOOLEAN :
        fetch' = [fetch EXCEPT !.pc = IF has_key THEN "request" ELSE "exit"]
    /\ UNCHANGED <<listing, content, pc, opened, raised, errors, df, sel,
                   df_filtered, df_map, rendered, stats, api, out, cache,
                   runs>>

\* one pass of the loop of fetch_all_batteries in which nothing raises: the
\* batch is accumulated, and a short batch ends the loop
FetchPage ==
    /\ fetch.pc = "request"
    /\ LET batch == Page(api, fetch.page_size, fetch.page) IN
        fetch' = [fetch EXCEPT
                    !.all_units = fetch.all_units \o batch,
                    !.pc = IF Len(batch) < fetch.page_size
                           THEN "return" ELSE "request",
                    !.page = IF Len(batch) < fetch.page_size
                             THEN fetch.page ELSE fetch.page + 1]
    /\ UNCHANGED <<listing, content, pc, opened, raised, errors, df, sel,
                   df_filtered, df_map, rendered, stats, api, out, cache,
                   runs>>

\* one pass of the loop in which requests.get, raise_for_status or
\* resp.json raises: the error is logged and the loop ends
FetchPageFails ==
    /\ fetch.pc = "request"
    /\ fetch' = [fetch EXCEPT !.logged = Append(fetch.logged, fetch.page),
                              !.pc = "return"]
    /\ UNCHANGED <<listing, content, pc, opened, raised, errors, df, sel,
                   df_filtered, df_map, rendered, stats, api, out, cache,
                   runs>>

\* fetch_all_batteries returns and main opens out_file for writing: the
\* file exists from now on, under its final name, and is empty
FetcherOpen ==
    /\ fetch.pc = "return"
    /\ fetch' = [fetch EXCEPT
                    !.batteries = ReturnedUnits(fetch.script, fetch.all_units),
                    !.pc = "dump"]
    /\ out' = [state |-> "partial", recs |-> <<>>]
    /\ listing' = IF OutFile(fetch.script) \in Range(listing) THEN listing
                  ELSE Append(listing, OutFile(fetch.script))
    /\ UNCHANGED <<content, pc, opened, raised, errors, df, sel, df_filtered,
                   df_map, rendered, stats, api, cache, runs>>

\* json.dump(batteries, f) and the end of the with block: the file holds
\* the whole list
FetcherDump ==
    /\ fetch.pc = "dump"
    /\ fetch' = [fetch EXCEPT !.pc = "done"]
    /\ out' = [state |-> "complete", recs |-> fetch.batteries]
    /\ UNCHANGED <<listing, content, pc, opened, raised, errors, df, sel,
                   df_filtered, df_map, rendered, stats, api, cache, runs>>

-----------------------------------------------------------------------------
(* The filter step of main *)

\* the widget values of main before any widget has been read
NoSelection ==
    [selected_status |-> Absent, power_min |-> Absent, power_max |-> Absent,
     capacity_min |-> Absent, capacity_max |-> Absent,
     selected_bundesland |-> Absent, selected_owner |-> Absent,
     selected_network_operator |-> Absent, selected_technology |-> Absent,
     duration_min |-> Absent, duration_max |-> Absent]

All == Text("All")

\* the cells of column c
ColumnCells(rows, c) == {rows[i][c] : i \in DOMAIN rows}

\* Series.min() / Series.max(): NaN is skipped, and NaN is the result when
\* nothing is left
ColumnMin(rows, c) ==
    LET vals == {v \in ColumnCells(rows, c) : IsNum(v)}
    IN IF vals = {} THEN NaN
       ELSE CHOOSE v \in vals : \A w \in vals : NumLE(v, w)

ColumnMax(rows, c) ==
    LET vals == {v \in ColumnCells(rows, c) : IsNum(v)}
    IN IF vals = {} THEN NaN
       ELSE CHOOSE v \in vals : \A w \in vals : NumLE(w, v)

\* the columns main reads while it builds the widgets (lines 293-328); a
\* missing one raises KeyError
WidgetColumns == {"BetriebsStatusName", "Power_MW", "Capacity_MWh",
                  "Bundesland", "AnlagenbetreiberName", "NetzbetreiberNamen"}

\* the values the widgets hold when the user has touched nothing: the first
\* option 'All' of each selectbox and the full range of each slider
DefaultSelection(f) ==
    [selected_status |-> All,
     power_min |-> ColumnMin(f.rows, "Power_MW"),
     power_max |-> ColumnMax(f.rows, "Power_MW"),
     capacity_min |-> ColumnMin(f.rows, "Capacity_MWh"),
     capacity_max |-> ColumnMax(f.rows, "Capacity_MWh"),
     selected_bundesland |-> All,
     selected_owner |-> All,
     selected_network_operator |-> All,
     selected_technology |-> All,
     duration_min |-> ColumnMin(f.rows, "Duration_hours"),
     duration_max |-> ColumnMax(f.rows, "Duration_hours")]

\* the widgets of main
SelectWidgets == {"status", "bundesland", "owner", "network_operator",
                  "technology"}

SliderWidgets == {"power", "capacity", "duration"}

WidgetColumn(w) ==
    CASE w = "status" -> "BetriebsStatusName"
      [] w = "bundesland" -> "Bundesland"
      [] w = "owner" -> "AnlagenbetreiberName"
      [] w = "network_operator" -> "NetzbetreiberNamen"
      [] w = "technology" -> "BatteryTechnologyName"
      [] w = "power" -> "Power_MW"
      [] w = "capacity" -> "Capacity_MWh"
      [] w = "duration" -> "Duration_hours"

\* the values widget w offers, as pairs [lo, hi] (a selectbox: lo = hi =
\* the option; a slider: lo <= hi among the values of the column).  The
\* technology selectbox exists only with the BatteryTechnologyName column.
WidgetChoices(f, w) ==
    IF w \in SelectWidgets
    THEN IF w = "technology" /\ "BatteryTechnologyName" \notin f.cols
         THEN {[lo |-> All, hi |-> All]}
         ELSE {[lo |-> v, hi |-> v] :
                 v \in {All} \cup ColumnCells(f.rows, WidgetColumn(w))}
    ELSE LET vals == {v \in ColumnCells(f.rows, WidgetColumn(w)) : IsNum(v)}
         IN IF vals = {}
            THEN {[lo |-> NaN, hi |-> NaN]}
            ELSE {v \in [lo : vals, hi : vals] : NumLE(v.lo, v.hi)}

\* selection s with widget w set to the pair v
SetWidget(s, w, v) ==
    CASE w = "status" -> [s EXCEPT !.selected_status = v.lo]
      [] w = "bundesland" -> [s EXCEPT !.selected_bundesland = v.lo]
      [] w = "owner" -> [s EXCEPT !.selected_owner = v.lo]
      [] w = "network_operator" -> [s EXCEPT !.selected_network_operator = v.lo]
      [] w = "technology" -> [s EXCEPT !.selected_technology = v.lo]
      [] w = "power" -> [s EXCEPT !.power_min = v.lo, !.power_max = v.hi]
      [] w = "capacity" -> [s EXCEPT !.capacity_min = v.lo, !.capacity_max = v.hi]
      [] w = "duration" -> [s EXCEPT !.duration_min = v.lo, !.duration_max = v.hi]

\* Series == scalar, one cell: a missing value equals nothing
CellEq(c, v) == ~IsNaN(c) /\ ~IsNaN(v) /\ c = v

\* df_filtered[df_filtered[col] == selected], skipped for 'All'
FilterSelected(rows, col, selected) ==
    IF selected # All
    THEN SelectSeq(rows, LAMBDA r : CellEq(r[col], selected))
    ELSE rows

\* the range filter with an exclusive upper end
FilterRangeExclusive(rows, col, lo, hi) ==
    SelectSeq(rows, LAMBDA r : NumGE(r[col], lo) /\ NumLT(r[col], hi))

\* the range filter with a missing value compared as 0
FilterRangeMissingAsZero(rows, col, lo, hi) ==
    SelectSeq(rows, LAMBDA r :
        LET v == IF IsNaN(r[col]) THEN Num(0) ELSE r[col]
        IN NumGE(v, lo) /\ NumLE(v, hi))

\* df_filtered[(df_filtered[col] >= lo) & (df_filtered[col] <= hi)]
FilterRange(rows, col, lo, hi) ==
    SelectSeq(rows, LAMBDA r : NumGE(r[col], lo) /\ NumLE(r[col], hi))

\* one filter statement of main: the criterion of widget w under selection s
ApplyCriterion(rows, w, s) ==
    CASE w = "status" -> FilterSelected(rows, "BetriebsStatusName", s.selected_status)
      [] w = "power" -> FilterRange(rows, "Power_MW", s.power_min, s.power_max)
      [] w = "capacity" ->
            FilterRange(rows, "Capacity_MWh", s.capacity_min, s.capacity_max)
      [] w = "bundesland" -> FilterSelected(rows, "Bundesland", s.selected_bundesland)
      [] w = "owner" -> FilterSelected(rows, "AnlagenbetreiberName", s.selected_owner)
      [] w = "network_operator" ->
            FilterSelected(rows, "NetzbetreiberNamen", s.selected_network_operator)
      [] w = "technology" ->
            FilterSelected(rows, "BatteryTechnologyName", s.selected_technology)
      [] w = "duration" ->
            FilterRange(rows, "Duration_hours", s.duration_min, s.duration_max)

\* the filter statements applied one after the other, in the order ws
RECURSIVE ApplyCriteria(_, _, _)
ApplyCriteria(rows, ws, s) ==
    IF ws = <<>> THEN rows
    ELSE ApplyCriteria(ApplyCriterion(rows, Head(ws), s), Tail(ws), s)

\* the order of the filter statements of main (lines 362-390)
FilterOrder == <<"status", "power", "capacity", "bundesland", "owner",
                 "network_operator", "technology", "duration">>

\* lines 359-390
ApplyFilters(rows, s) == ApplyCriteria(rows, FilterOrder, s)

-----------------------------------------------------------------------------
(* create_map *)

\* df_filtered.dropna(subset=['Breitengrad', 'Laengengrad']): a new frame,
\* df_filtered itself is left as it is
DropNaCoordinates(rows) ==
    SelectSeq(rows, LAMBDA r : ~IsNaN(r["Breitengrad"]) /\ ~IsNaN(r["Laengengrad"]))

\* what create_map shows: the warning for no coordinates, the error for a
\* missing required column, or the map
MapStep(f, rows) ==
    IF DropNaCoordinates(rows) = <<>> THEN "map_warning"
    ELSE IF ~({"Breitengrad", "Laengengrad", "Power_MW", "BetriebsStatusName",
               "EinheitName"} \subseteq f.cols)
    THEN "map_error"
    ELSE "map"

-----------------------------------------------------------------------------
(* create_summary_stats *)

\* the sum of two numeric cells
AddCells(a, b) == Rat(a.n * b.d + b.n * a.d, a.d * b.d)

\* Series.sum() of column c: missing values are skipped, and the sum of
\* nothing is 0
RECURSIVE ColumnSum(_, _)
ColumnSum(rows, c) ==
    IF rows = <<>> THEN Num(0)
    ELSE IF IsNum(Head(rows)[c])
    THEN AddCells(Head(rows)[c], ColumnSum(Tail(rows), c))
    ELSE ColumnSum(Tail(rows), c)

\* Series.mean() of column c: the sum over the count of the values that are
\* not missing, NaN when there is none
ColumnMean(rows, c) ==
    LET n == Cardinality({i \in DOMAIN rows : IsNum(rows[i][c])})
    IN IF n = 0 THEN NaN ELSE DivScalar(ColumnSum(rows, c), n)

\* lines 197-202: the mean, and 0 for no rows
StatsMean(rows, c) == IF Len(rows) > 0 THEN ColumnMean(rows, c) ELSE Num(0)

\* Series.value_counts().to_dict() of column c: the values that are not
\* missing, each with the number of rows holding it
ValueCounts(rows, c) ==
    LET vals == {v \in ColumnCells(rows, c) : ~IsNaN(v)}
    IN [v \in vals |-> Cardinality({i \in DOMAIN rows : rows[i][c] = v})]

\* the columns create_summary_stats reads, in the order it reads them
StatsColumns == <<"Power_MW", "Capacity_MWh", "BetriebsStatusName",
                  "Batterietechnologie", "Bundesland">>

\* create_summary_stats(df_filtered), df_filtered being the rows `rows' of a
\* frame with the columns of f: the KeyError of the first column that does
\* not exist, or the statistics
create_summary_stats(f, rows) ==
    IF \E i \in DOMAIN StatsColumns : StatsColumns[i] \notin f.cols
    THEN [raised |-> "KeyError",
          key |-> StatsColumns[CHOOSE i \in DOMAIN StatsColumns :
                      /\ StatsColumns[i] \notin f.cols
                      /\ \A j \in 1..(i - 1) : StatsColumns[j] \in f.cols]]
    ELSE [raised |-> "none",
          total_units |-> Len(rows),
          total_power |-> ColumnSum(rows, "Power_MW"),
          total_capacity |-> ColumnSum(rows, "Capacity_MWh"),
          average_power |-> StatsMean(rows, "Power_MW"),
          average_capacity |-> StatsMean(rows, "Capacity_MWh"),
          status_breakdown |-> ValueCounts(rows, "BetriebsStatusName"),
          technology_breakdown |-> ValueCounts(rows, "Batterietechnologie"),
          bundesland_breakdown |-> ValueCounts(rows, "Bundesland")]

-----------------------------------------------------------------------------
(* main *)

\* main without the test for None
AfterLoadNoStop(result) == "filters"

\* lines 284-286: st.stop() on a failed load
AfterLoad(result) == IF result.none THEN "stopped" ELSE "filters"

\* lines 397-399: main returns after the warning when nothing matches
AfterFilter(rows) == IF Len(rows) = 0 THEN "done" ELSE "stats"

\* a slider whose column has no number, or one number only: its min_value
\* and max_value are NaN or equal
SliderDegenerate(f) ==
    \E w \in SliderWidgets :
        \/ IsNaN(ColumnMin(f.rows, WidgetColumn(w)))
        \/ ColumnMin(f.rows, WidgetColumn(w)) = ColumnMax(f.rows, WidgetColumn(w))

\* main can build its widgets: df is a frame with the columns they read
WidgetsOk == ~df.none /\ WidgetColumns \subseteq df.cols

\* @st.cache_data on a function without parameters (line 49): the call
\* runs the body when nothing is cached, and is answered with the cached
\* return value otherwise
st_cache_data(c, names, cont) ==
    IF c = <<>> THEN load_battery_data(names, cont) ELSE c[1]

\* main, lines 278-286: the load, and st.stop() when it returned None; a
\* cached call opens nothing, and the st.error recorded with the cached
\* value is shown again
MainLoad ==
    /\ pc = "load"
    /\ LET ret == st_cache_data(cache, listing, SnapshotContent) IN
        /\ opened' = IF cache = <<>> THEN opened \o ret.opened ELSE opened
        /\ raised' = IF cache = <<>> THEN ret.raised ELSE raised
        /\ errors' = errors \o ret.error
        /\ df' = ret.result
        /\ cache' = <<ret>>
        /\ pc' = AfterLoad(ret.result)
    /\ UNCHANGED <<api, fetch, out, stats, listing, content, sel, df_filtered,
                   df_map, rendered, runs>>

\* the script is run again in the same process (a widget was moved, the
\* page was reloaded): its locals are gone, the cache is not
Rerun ==
    /\ pc # "load"
    /\ runs < MaxRuns
    /\ runs' = runs + 1
    /\ pc' = "load"
    /\ df' = NoneResult
    /\ sel' = NoSelection
    /\ df_filtered' = <<>>
    /\ df_map' = <<>>
    /\ rendered' = <<>>
    /\ stats' = <<>>
    /\ UNCHANGED <<listing, content, opened, raised, errors, api, fetch, out,
                   cache>>

\* the cache is cleared from the menu of the application
ClearCache ==
    /\ cache # <<>>
    /\ cache' = <<>>
    /\ UNCHANGED <<listing, content, pc, opened, raised, errors, df, sel,
                   df_filtered, df_map, rendered, stats, api, fetch, out,
                   runs>>

\* main, lines 288-328: df['BetriebsStatusName'] and the like raise (a
\* TypeError on None, a KeyError on a missing column) and the script ends
MainFiltersCrash ==
    /\ pc = "filters"
    /\ ~WidgetsOk
    /\ pc' = "crashed"
    /\ rendered' = Append(rendered, "sidebar")
    /\ UNCHANGED <<cache, runs, api, fetch, out, stats, listing, content,
                   opened, raised, errors, df, sel, df_filtered, df_map>>

\* main, lines 296-357: st.slider may refuse min_value and max_value that
\* are NaN or equal; whether it does is Streamlit's choice
MainSliderCrash ==
    /\ pc = "filters"
    /\ WidgetsOk
    /\ SliderDegenerate(df)
    /\ pc' = "crashed"
    /\ rendered' = Append(rendered, "sidebar")
    /\ UNCHANGED <<cache, runs, api, fetch, out, stats, listing, content,
                   opened, raised, errors, df, sel, df_filtered, df_map>>

\* main, lines 288-399, the widgets holding s
MainFilters(s) ==
    /\ pc = "filters"
    /\ WidgetsOk
    /\ sel' = s
    /\ df_filtered' = ApplyFilters(df.rows, s)
    /\ pc' = AfterFilter(df_filtered')
    /\ rendered' = rendered \o <<"sidebar", "count">> \o
                   (IF Len(df_filtered') = 0 THEN <<"no_match_warning">> ELSE <<>>)
    /\ UNCHANGED <<cache, runs, api, fetch, out, stats, listing, content,
                   opened, raised, errors, df, df_map>>

\* the first run of the script: no widget has been touched
MainFiltersFirstRun == MainFilters(DefaultSelection(df))

\* a run in which the user has set at most two widgets
MainFiltersUser ==
    \E w1, w2 \in SelectWidgets \cup SliderWidgets :
        \E v1 \in WidgetChoices(df, w1), v2 \in WidgetChoices(df, w2) :
            MainFilters(SetWidget(SetWidget(DefaultSelection(df), w1, v1), w2, v2))

\* main, lines 401-422: stats = create_summary_stats(df_filtered), and the
\* five metrics; the KeyError of create_summary_stats ends the script
MainStats ==
    /\ pc = "stats"
    /\ stats' = Append(stats, create_summary_stats(df, df_filtered))
    /\ IF create_summary_stats(df, df_filtered).raised = "none"
       THEN pc' = "map" /\ rendered' = Append(rendered, "stats")
       ELSE pc' = "crashed" /\ rendered' = rendered
    /\ UNCHANGED <<cache, runs, api, fetch, out, listing, content, opened,
                   raised, errors, df, sel, df_filtered, df_map>>

\* create_summary_stats called on the empty df_filtered main has returned
\* on (line 399)
SummaryStatsOfNoMatch ==
    /\ pc = "done"
    /\ sel # NoSelection
    /\ df_filtered = <<>>
    /\ stats = <<>>
    /\ stats' = Append(stats, create_summary_stats(df, df_filtered))
    /\ UNCHANGED <<cache, runs, api, fetch, out, listing, content, pc, opened,
                   raised, errors, df, sel, df_filtered, df_map, rendered>>

\* main, lines 424-428: create_map(df_filtered); dropna raises KeyError
\* when a coordinate column does not exist
MainMap ==
    /\ pc = "map"
    /\ IF coordinate_columns \subseteq df.cols
       THEN /\ df_map' = DropNaCoordinates(df_filtered)
            /\ rendered' = Append(rendered, MapStep(df, df_filtered))
            /\ pc' = "charts"
       ELSE /\ df_map' = df_map
            /\ rendered' = rendered
            /\ pc' = "crashed"
    /\ UNCHANGED <<cache, runs, api, fetch, out, stats, listing, content,
                   opened, raised, errors, df, sel, df_filtered>>

\* main, lines 430-449: create_charts and the four charts
MainCharts ==
    /\ pc = "charts"
    /\ pc' = "table"
    /\ rendered' = Append(rendered, "charts")
    /\ UNCHANGED <<cache, runs, api, fetch, out, stats, listing, content,
                   opened, raised, errors, df, sel, df_filtered, df_map>>

\* main, lines 451-499: the table and the footer
MainTable ==
    /\ pc = "table"
    /\ pc' = "done"
    /\ rendered' = Append(rendered, "table")
    /\ UNCHANGED <<cache, runs, api, fetch, out, stats, listing, content,
                   opened, raised, errors, df, sel, df_filtered, df_map>>

-----------------------------------------------------------------------------
(* Snapshots *)

\* the record of the scenario of the specification, with the other fields
\* the dashboard reads
BaseRecord ==
    [c \in RawCols |->
        CASE c = "EinheitName" -> Text("Speicher 1")
          [] c = "BetriebsStatusName" -> Text("In Betrieb")
          [] c = "Bundesland" -> Text("Bayern")
          [] c = "AnlagenbetreiberName" -> Text("Betreiber A")
          [] c = "NetzbetreiberNamen" -> Text("Netz A")
          [] c = "Bruttoleistung" -> NumText(5000)
          [] c = "NutzbareSpeicherkapazitaet" -> NumText(20000)
          [] c = "Batterietechnologie" -> Num(727)
          [] c = "Breitengrad" -> NumText(48)
          [] c = "Laengengrad" -> NumText(11)
          [] c = "InbetriebnahmeDatum" -> DateText(86400000)
          [] OTHER -> Absent]

\* BaseRecord named name, with power b, capacity c and technology t
Unit(name, b, c, t) ==
    [BaseRecord EXCEPT !["EinheitName"] = Text(name),
                       !["Bruttoleistung"] = b,
                       !["NutzbareSpeicherkapazitaet"] = c,
                       !["Batterietechnologie"] = t]

\* the records the normalizer is run on
NormPool ==
    { BaseRecord,
      Unit("Speicher 2", Num(0), Num(0), Num(728)),
      Unit("Speicher 3", Num(-2000), Num(500), Num(729)),
      Unit("Speicher 4", Num(500), Num(-2000), Num(730)),
      Unit("Speicher 5", Num(1000), Num(1000), Num(731)),
      Unit("Speicher 6", Num(10000), Num(100000), Num(732)),
      Unit("Speicher 7", Num(100000), Num(10000), Num(733)),
      Unit("Speicher 8", Num(1000000), NumText(1000000), NumText(727)),
      Unit("Speicher 9", NumText(2000000), Num(2000000), Null),
      Unit("Speicher 10", Null, Num(20000), Absent),
      Unit("Speicher 11", Text("n/a"), Null, Text("Lithium")),
      Unit("Speicher 12", Absent, Num(20000), Num(727)),
      Unit("Speicher 13", Num(5000), Absent, Num(727)),
      Unit("Speicher 14", Num(0), Num(20000), Absent),
      Unit("Speicher 15", Num(5000), Text("n/a"), Num(727)),
      [BaseRecord EXCEPT !["EinheitName"] = Text("Speicher 16"),
                         !["Breitengrad"] = Absent,
                         !["Laengengrad"] = Absent,
                         !["InbetriebnahmeDatum"] = Absent],
      [BaseRecord EXCEPT !["EinheitName"] = Text("Speicher 17"),
                         !["Breitengrad"] = Null,
                         !["Laengengrad"] = Text("n/a"),
                         !["InbetriebnahmeDatum"] = Text("/Date(n/a)/")],
      [BaseRecord EXCEPT !["EinheitName"] = Text("Speicher 18"),
                         !["InbetriebnahmeDatum"] = Num(86400000)],
      [c \in RawCols |-> IF c = "EinheitName" THEN Text("Speicher 19") ELSE Absent],
      [c \in RawCols |-> Absent] }

\* the records the filters are run on
FilterPool ==
    { BaseRecord,
      [Unit("Speicher 2", Num(10000), Num(10000), Num(728))
          EXCEPT !["BetriebsStatusName"] = Text("In Planung"),
                 !["Bundesland"] = Text("Hessen"),
                 !["AnlagenbetreiberName"] = Text("Betreiber B"),
                 !["NetzbetreiberNamen"] = Text("Netz B")],
      [Unit("Speicher 3", Null, Num(20000), Num(733))
          EXCEPT !["Bundesland"] = Null,
                 !["NetzbetreiberNamen"] = Text("Netz B")],
      [Unit("Speicher 4", Num(0), Num(0), Absent)
          EXCEPT !["BetriebsStatusName"] = Text("In Planung"),
                 !["AnlagenbetreiberName"] = Text("Betreiber B")] }

\* the records the range filters are run on: power and capacity present,
\* zero, null and absent
RangePool ==
    { BaseRecord,
      Unit("Speicher 2", Num(0), Num(0), Num(728)),
      Unit("Speicher 3", Null, Num(20000), Num(729)),
      Unit("Speicher 13", Num(0), Absent, Num(727)) }

\* the records the registry API serves: a lithium battery, and a unit whose
\* technology is no battery technology
FetchPool == {BaseRecord, Unit("Speicher 7", Num(100000), Num(10000), Num(733))}

\* the names in the directory a fetcher is started in
FetchDirNames == {FileAllMar, FileMastrDefault, FileCollectDefault}

\* the records of the snapshots the loader is run on
LoaderPool == {BaseRecord, Unit("Speicher 12", Absent, Num(20000), Num(727))}

ArrayOf(recs) == [kind |-> "array", recs |-> recs]

\* one content of each kind that is not an array of objects
OtherContents ==
    {[kind |-> k, recs |-> <<>>] :
        k \in ContentKinds \ {"array", "object_columns"}}
    \cup {[kind |-> "object_columns", recs |-> <<BaseRecord>>]}

-----------------------------------------------------------------------------
(* Specifications *)

\* no fetcher runs
InitNoFetcher ==
    /\ api = <<>>
    /\ fetch = IdleFetcher
    /\ out = NoOutput

\* main has not run yet
InitMain ==
    /\ pc = "load"
    /\ opened = <<>>
    /\ raised = "none"
    /\ errors = <<>>
    /\ df = NoneResult
    /\ sel = NoSelection
    /\ df_filtered = <<>>
    /\ df_map = <<>>
    /\ rendered = <<>>
    /\ stats = <<>>
    /\ cache = <<>>
    /\ runs = 1

\* the dashboard is started, and no fetcher runs
InitRun ==
    /\ InitNoFetcher
    /\ InitMain

\* any directory, any content of the snapshot file
Init ==
    /\ listing \in DistinctSeqsUpTo(FileNames, MaxFiles)
    /\ content \in OtherContents \cup
                   {ArrayOf(r) : r \in SeqsUpTo(LoaderPool, MaxRecords)}
    /\ InitRun

\* one snapshot file, holding an array of objects
InitNorm ==
    /\ listing = <<FileAllMar>>
    /\ content \in {ArrayOf(r) : r \in SeqsUpTo(NormPool, MaxRecords)}
    /\ InitRun

InitFilter ==
    /\ listing = <<FileAllMar>>
    /\ content \in {ArrayOf(r) : r \in SeqsUpTo(FilterPool, MaxRecords)}
    /\ InitRun

InitRange ==
    /\ listing = <<FileAllMar>>
    /\ content \in {ArrayOf(r) : r \in SeqsUpTo(RangePool, MaxRecords)}
    /\ InitRun

\* a fetcher is started next to a dashboard that has not loaded yet
InitFetch ==
    /\ listing \in DistinctSeqsUpTo(FetchDirNames, MaxFiles)
    /\ content = ArrayOf(<<BaseRecord>>)
    /\ api \in SeqsUpTo(FetchPool, MaxRemote)
    /\ fetch \in {BeforeMain(s, n) : s \in {"mastr", "collect"},
                                     n \in 1..MaxPageSize}
    /\ out = NoOutput
    /\ InitMain

\* the dashboard process is started next to a fetcher with the largest page
\* size, the API holding lithium batteries
InitCache ==
    /\ listing \in DistinctSeqsUpTo(FetchDirNames, MaxFiles)
    /\ content = ArrayOf(<<BaseRecord>>)
    /\ api \in SeqsUpTo({BaseRecord}, MaxRemote)
    /\ fetch \in {BeforeMain(s, MaxPageSize) : s \in {"mastr", "collect"}}
    /\ out = NoOutput
    /\ InitMain

\* the first run of the script
Next ==
    \/ MainLoad
    \/ MainFiltersCrash
    \/ MainSliderCrash
    \/ MainFiltersFirstRun
    \/ MainStats
    \/ MainMap
    \/ MainCharts
    \/ MainTable

\* a run of the script in which the user has set widgets
NextFilter ==
    \/ MainLoad
    \/ MainFiltersCrash
    \/ MainSliderCrash
    \/ MainFiltersUser
    \/ MainStats
    \/ MainMap
    \/ MainCharts
    \/ MainTable

Spec == Init /\ [][Next]_vars

SpecNorm == InitNorm /\ [][Next]_vars

SpecFilter == InitFilter /\ [][NextFilter]_vars

\* the first run of the script, and create_summary_stats on its empty result
NextStats ==
    \/ MainLoad
    \/ MainFiltersCrash
    \/ MainSliderCrash
    \/ MainFiltersFirstRun
    \/ SummaryStatsOfNoMatch
    \/ MainStats
    \/ MainMap
    \/ MainCharts
    \/ MainTable

SpecStats == InitNorm /\ [][NextStats]_vars

\* a run of a fetcher, and the load of the dashboard at any point of it
NextFetch ==
    \/ FetcherMain
    \/ FetchPage
    \/ FetchPageFails
    \/ FetcherOpen
    \/ FetcherDump
    \/ MainLoad

SpecFetch == InitFetch /\ [][NextFetch]_vars

\* runs of the script in one process, next to a run of a fetcher
NextCache ==
    \/ FetcherMain
    \/ FetchPage
    \/ FetchPageFails
    \/ FetcherOpen
    \/ FetcherDump
    \/ MainLoad
    \/ Rerun
    \/ ClearCache

SpecCache == InitCache /\ [][NextCache]_vars

SpecRange == InitRange /\ [][NextFilter]_vars

-----------------------------------------------------------------------------
(* Properties *)

\* load_battery_data has returned
Loaded == pc # "load"

\* load_battery_data has returned a frame built from an array of objects
Normalized == Loaded /\ content.kind = "array" /\ ~df.none

\* the number a raw JSON cell holds, NaN ("missing") when it holds none
RawNumber(c) == IF c.k \in {"num", "numtext"} THEN Num(c.n) ELSE NaN

\* C1: for every snapshot that is a JSON array of objects, whatever is
\* absent, null or malformed in its date and numeric fields,
\* preprocess_data raises nothing and load_battery_data reports no load
\* error: it returns the normalized table.
C1_NormalizationNeverFails ==
    (Loaded /\ content.kind = "array")
        => (raised = "none" /\ errors = <<>> /\ ~df.none)

\* the Duration_hours the claim C2 gives a raw record
ExpectedDuration(rec) ==
    LET p == RawNumber(rec["Bruttoleistung"])
        c == RawNumber(rec["NutzbareSpeicherkapazitaet"])
    IN IF IsNum(p) /\ p.n # 0 /\ IsNum(c)
       THEN Rat(c.n * 1000, p.n * 1000)
       ELSE Num(0)

\* C2: for every record of an array snapshot, Duration_hours is
\* Capacity_MWh / Power_MW when Power_MW is present and non-zero and
\* Capacity_MWh is present, and 0 in every other case (Power_MW zero,
\* Bruttoleistung missing, Capacity_MWh missing); it is never missing and
\* computing it never raises.
C2_DurationDefined ==
    (Loaded /\ content.kind = "array")
        => /\ ~df.none
           /\ \A i \in DOMAIN content.recs :
                /\ i \in DOMAIN df.rows
                /\ df.rows[i]["Duration_hours"] = ExpectedDuration(content.recs[i])

\* the BatteryTechnologyName the claim C3 gives a raw record
ExpectedTechnologyName(rec) ==
    LET t == rec["Batterietechnologie"]
    IN IF t.k = "num" /\ t.n >= 727 /\ t.n <= 732
       THEN Text(BATTERY_TECH_MAPPING[t.n])
       ELSE Text("Unbekannt")

\* some record of the snapshot holds the key Batterietechnologie
SomeRecordHasTechnology ==
    \E i \in DOMAIN content.recs : content.recs[i]["Batterietechnologie"].k # "absent"

\* C3 (as stated): after normalization every record has a
\* BatteryTechnologyName, the table label for the codes 727..732 and
\* 'Unbekannt' otherwise, also when Batterietechnologie is absent from one
\* record or from all records of the snapshot.
C3_EveryRecordHasTechnologyName ==
    Normalized
        => \A i \in DOMAIN df.rows :
             /\ "BatteryTechnologyName" \in df.cols
             /\ df.rows[i]["BatteryTechnologyName"] =
                    ExpectedTechnologyName(content.recs[i])

\* C3 (amended): after a normalization that completes, when some record of
\* the snapshot holds the key Batterietechnologie, every record has a
\* BatteryTechnologyName: the table label for the integer codes 727..732,
\* 'Unbekannt' for any other value and for a record without the key; when
\* no record holds the key, the lookup is skipped and no record gets a
\* BatteryTechnologyName.
C3_TechnologyNameWhereColumnExists ==
    Normalized
        => IF SomeRecordHasTechnology
           THEN /\ "BatteryTechnologyName" \in df.cols
                /\ \A i \in DOMAIN df.rows :
                     df.rows[i]["BatteryTechnologyName"] =
                         ExpectedTechnologyName(content.recs[i])
           ELSE /\ "BatteryTechnologyName" \notin df.cols
                /\ \A i \in DOMAIN df.rows :
                     df.rows[i]["BatteryTechnologyName"] = Absent

\* C3 witness: a normalized snapshot with a known code, an unknown code and
\* a record without the key
C3_Witness ==
    /\ Normalized
    /\ Len(df.rows) = 2
    /\ content.recs[1]["Batterietechnologie"] = Num(733)
    /\ content.recs[2]["Batterietechnologie"] = Absent
    /\ df.rows[1]["BatteryTechnologyName"] = Text("Unbekannt")
    /\ df.rows[2]["BatteryTechnologyName"] = Text("Unbekannt")

\* the five bins of the claim C4: lo < x <= hi, the last one without an
\* upper end
CategoryBins ==
    { [lo |-> 0, hi |-> 1, open |-> FALSE, label |-> "<1"],
      [lo |-> 1, hi |-> 10, open |-> FALSE, label |-> "1-10"],
      [lo |-> 10, hi |-> 100, open |-> FALSE, label |-> "10-100"],
      [lo |-> 100, hi |-> 1000, open |-> FALSE, label |-> "100-1000"],
      [lo |-> 1000, hi |-> 1000, open |-> TRUE, label |-> ">1000"] }

\* the number x = n/d lies in bin b
InBin(x, b) == x.n > b.lo * x.d /\ (b.open \/ x.n <= b.hi * x.d)

BinsOf(x) == {b \in CategoryBins : IsNum(x) /\ InBin(x, b)}

\* the cell x is categorized as the claim C4 says: no category for a value
\* in no bin, the label of its only bin (with the unit) otherwise
CategoryAsClaimed(x, cat, unit) ==
    IF BinsOf(x) = {} THEN cat = NaN
    ELSE /\ Cardinality(BinsOf(x)) = 1
         /\ \E b \in BinsOf(x) :
              /\ cat.k = "text"
              /\ unit = "MW" => cat.s \in {b.label \o " MW"}
              /\ unit = "MWh" => cat.s \in {b.label \o " MWh"}

\* C4: Power_Category (Capacity_Category) of a record is the label of the
\* one bin among (0,1], (1,10], (10,100], (100,1000], (1000,inf) that
\* holds Power_MW (Capacity_MWh); a value that is 0, negative or missing
\* has no category.
C4_CategoryIsTheBin ==
    (Normalized /\ "Power_MW" \in df.cols)
        => \A i \in DOMAIN df.rows :
             /\ df.rows[i]["Power_MW"] =
                    DivScalar(RawNumber(content.recs[i]["Bruttoleistung"]), 1000)
             /\ CategoryAsClaimed(df.rows[i]["Power_MW"],
                                  df.rows[i]["Power_Category"], "MW")
             /\ CategoryAsClaimed(df.rows[i]["Capacity_MWh"],
                                  df.rows[i]["Capacity_Category"], "MWh")

\* C4 witness: a boundary value (1000 MW, 1000 MWh) in the bin it closes,
\* beside a record whose power is missing and has no category
C4_Witness ==
    /\ Normalized
    /\ Len(df.rows) = 2
    /\ df.rows[1]["Power_MW"] = Num(1000)
    /\ df.rows[1]["Power_Category"] = Text("100-1000 MW")
    /\ df.rows[1]["Capacity_Category"] = Text("100-1000 MWh")
    /\ df.rows[2]["Power_MW"] = NaN
    /\ df.rows[2]["Power_Category"] = NaN

\* the raw record rec and the row r are the same unit
SameUnit(rec, r) ==
    IF rec["EinheitName"].k = "text" THEN r["EinheitName"] = rec["EinheitName"]
    ELSE r["EinheitName"].k \in {"nan", "absent"}

\* create_map has run
MapDone == pc \in {"charts", "table"} \/ (pc = "done" /\ "table" \in Range(rendered))

\* the row r has both coordinates
HasCoordinates(r) == r["Breitengrad"].k = "num" /\ r["Laengengrad"].k = "num"

\* C5: preprocess_data returns one normalized record per input record, in
\* the input order, whatever the fields hold; the records without valid
\* coordinates are removed only in create_map's copy df_map, and
\* df_filtered and df keep them.
C5_OneRecordPerInput ==
    /\ Normalized
        => /\ Len(df.rows) = Len(content.recs)
           /\ \A i \in DOMAIN df.rows : SameUnit(content.recs[i], df.rows[i])
    /\ (Normalized /\ MapDone)
        => /\ df_filtered = ApplyFilters(df.rows, sel)
           /\ df_map = SelectSeq(df_filtered, HasCoordinates)

\* C5 witness: two records, the first without coordinates, both normalized
\* and both filtered in, the first missing from the map's copy only
C5_Witness ==
    /\ Normalized
    /\ pc = "done"
    /\ Len(df.rows) = 2
    /\ df.rows[1]["EinheitName"] = Text("Speicher 17")
    /\ df.rows[1]["Laengengrad"] = NaN
    /\ Len(df_filtered) = 2
    /\ Len(df_map) = 1
    /\ df_map[1]["EinheitName"] = Text("Speicher 1")

\* the name f matches the snapshot naming convention, as the claim C6
\* states it
MatchesConvention(f) ==
    \E p \in {PrefixAll, PrefixDashboard} :
        /\ Len(f) >= Len(p) + Len(SuffixJson)
        /\ \A i \in 1..Len(p) : f[i] = p[i]
        /\ \A j \in 1..Len(SuffixJson) : f[Len(f) - Len(SuffixJson) + j] = SuffixJson[j]

\* a is lexicographically below b: at the first place where they differ, a
\* has ended or holds the smaller character
LexBelow(a, b) ==
    \E k \in 1..(Min2(Len(a), Len(b)) + 1) :
        /\ \A i \in 1..(k - 1) : a[i] = b[i]
        /\ \/ k > Len(a) /\ k <= Len(b)
           \/ k <= Len(a) /\ k <= Len(b) /\ a[k] < b[k]

MatchingNames == {f \in Range(listing) : MatchesConvention(f)}

\* C6: the selector considers exactly the names that start with one of the
\* two prefixes and end with '.json'; when some name matches it opens the
\* lexicographically greatest matching name, and it never opens another.
C6_OpensGreatestMatch ==
    Loaded
        => IF MatchingNames = {} THEN opened = <<>>
           ELSE /\ Len(opened) = 1
                /\ opened[1] \in MatchingNames
                /\ \A g \in MatchingNames : g = opened[1] \/ LexBelow(g, opened[1])

\* C6 witness: two matching names and a greater name that does not match;
\* the name opened is not the one listed last
C6_Witness ==
    /\ Loaded
    /\ listing = <<FileCollectDefault, FileOtherJson, FileAllMar>>
    /\ opened = <<FileCollectDefault>>

ScenarioListing == <<FileDashboardJan, FileAllMar>>

C8_NoDataHalts ==
    (Loaded /\ MatchingNames = {})
        => /\ errors = <<"no_data_files">>
           /\ df = NoneResult
           /\ opened = <<>>
           /\ raised = "none"
           /\ pc = "stopped"
           /\ rendered = <<>>
           /\ sel = NoSelection
           /\ df_filtered = <<>>

\* C8 witness: a directory with names, none matching, and main halted
C8_Witness ==
    /\ pc = "stopped"
    /\ Len(listing) = 3
    /\ MatchingNames = {}
    /\ errors = <<"no_data_files">>
    /\ content.kind = "array"
    /\ Len(content.recs) = 1

\* C9: when the selected snapshot is malformed JSON or its top-level value
\* is not an array, load_battery_data reports a load error and returns
\* None, so that main halts; it never returns a table built from a
\* non-array value.
C9_NonArrayIsLoadError ==
    (Loaded /\ MatchingNames # {} /\ content.kind # "array")
        => /\ df.none
           /\ errors = <<"error_loading_data">>
           /\ raised # "none"
           /\ pc = "stopped"

\* the selection s has been read from the widgets
Selected == sel # NoSelection

\* the criteria that are active under selection s: an equality for each
\* selectbox that is not on 'All', and the three ranges
ActiveCriteria(s) ==
    {c \in { [col |-> "BetriebsStatusName", eq |-> TRUE,
              lo |-> s.selected_status, hi |-> s.selected_status],
             [col |-> "Bundesland", eq |-> TRUE,
              lo |-> s.selected_bundesland, hi |-> s.selected_bundesland],
             [col |-> "AnlagenbetreiberName", eq |-> TRUE,
              lo |-> s.selected_owner, hi |-> s.selected_owner],
             [col |-> "NetzbetreiberNamen", eq |-> TRUE,
              lo |-> s.selected_network_operator,
              hi |-> s.selected_network_operator],
             [col |-> "BatteryTechnologyName", eq |-> TRUE,
              lo |-> s.selected_technology, hi |-> s.selected_technology] } :
        c.lo # All}
    \cup { [col |-> "Power_MW", eq |-> FALSE,
            lo |-> s.power_min, hi |-> s.power_max],
           [col |-> "Capacity_MWh", eq |-> FALSE,
            lo |-> s.capacity_min, hi |-> s.capacity_max],
           [col |-> "Duration_hours", eq |-> FALSE,
            lo |-> s.duration_min, hi |-> s.duration_max] }

\* the row r satisfies criterion c: its label is the selected label, or its
\* number lies in the inclusive range (a missing value satisfies neither)
Satisfies(r, c) ==
    IF c.eq THEN r[c.col].k = "text" /\ r[c.col] = c.lo
    ELSE /\ r[c.col].k = "num" /\ c.lo.k = "num" /\ c.hi.k = "num"
         /\ c.lo.n * r[c.col].d <= r[c.col].n * c.lo.d
         /\ r[c.col].n * c.hi.d <= c.hi.n * r[c.col].d

SatisfiesAll(r, cs) == \A c \in cs : Satisfies(r, c)

\* the criterion of widget w under selection s, if it is active
CriteriaOf(w, s) == {c \in ActiveCriteria(s) : c.col = WidgetColumn(w)}

ReverseSeq(q) == [i \in 1..Len(q) |-> q[Len(q) + 1 - i]]

\* C10: the filter step returns exactly the records that satisfy every
\* active criterion, in their original order; a selection of 'All' has the
\* effect of omitting the criterion; and the criteria give the same result
\* in the order of the script, in the reverse order and pairwise in either
\* order, which is also the result of applying the pair at once.
C10_FilterIsConjunction ==
    Selected
        => /\ df_filtered =
                SelectSeq(df.rows, LAMBDA r : SatisfiesAll(r, ActiveCriteria(sel)))
           /\ ApplyCriteria(df.rows, ReverseSeq(FilterOrder), sel) = df_filtered
           /\ \A w1, w2 \in Range(FilterOrder) :
                /\ ApplyCriterion(ApplyCriterion(df.rows, w1, sel), w2, sel)
                     = ApplyCriterion(ApplyCriterion(df.rows, w2, sel), w1, sel)
                /\ ApplyCriterion(ApplyCriterion(df.rows, w1, sel), w2, sel)
                     = SelectSeq(df.rows, LAMBDA r :
                          SatisfiesAll(r, CriteriaOf(w1, sel) \cup CriteriaOf(w2, sel)))
           /\ \A w \in SelectWidgets :
                CriteriaOf(w, sel) = {} => ApplyCriterion(df.rows, w, sel) = df.rows

\* C10 witness: an equality and a narrowed range are active together, a
\* record passes and the others do not
C10_Witness ==
    /\ Selected
    /\ Len(df.rows) = 2
    /\ sel.selected_owner = Text("Betreiber B")
    /\ sel.selected_status = All
    /\ sel.power_min = Num(0)
    /\ sel.power_max = Num(0)
    /\ ColumnMax(df.rows, "Power_MW") = Num(10)
    /\ Len(df_filtered) = 1
    /\ df_filtered[1]["EinheitName"] = Text("Speicher 4")

\* the bounds a range criterion is tried with: the values of the column,
\* its minimum and maximum, zero and the missing value
RangeBounds(rows, col) ==
    ColumnCells(rows, col)
        \cup {ColumnMin(rows, col), ColumnMax(rows, col), Num(0), NaN}

\* the row r has no Power_MW or no Capacity_MWh
MissingPowerOrCapacity(r) == IsNaN(r["Power_MW"]) \/ IsNaN(r["Capacity_MWh"])

\* C11: a record whose Power_MW or Capacity_MWh is missing is not in the
\* result of the filter step, and the power and capacity range criteria
\* exclude it for every choice of bounds, the full range [min, max] and the
\* range [0, 0] included: the missing value is not compared as zero.
C11_MissingIsExcluded ==
    Selected
        => /\ \A i \in DOMAIN df_filtered : ~MissingPowerOrCapacity(df_filtered[i])
           /\ \A w \in {"power", "capacity"} :
                \A lo, hi \in RangeBounds(df.rows, WidgetColumn(w)) :
                    \A r \in Range(ApplyCriterion(df.rows, w,
                                     SetWidget(sel, w, [lo |-> lo, hi |-> hi]))) :
                        ~IsNaN(r[WidgetColumn(w)])

\* C11 witness: a record with no power and a record with power 0 and no
\* capacity, under the full ranges, which are [0, 0] for the power and
\* [20, 20] for the capacity: neither record passes
C11_Witness ==
    /\ Selected
    /\ sel = DefaultSelection(df)
    /\ sel.power_min = Num(0)
    /\ sel.power_max = Num(0)
    /\ sel.capacity_min = Num(20)
    /\ sel.capacity_max = Num(20)
    /\ Len(df.rows) = 2
    /\ \E i \in DOMAIN df.rows :
        IsNaN(df.rows[i]["Power_MW"]) /\ df.rows[i]["Capacity_MWh"] = Num(20)
    /\ \E i \in DOMAIN df.rows :
        IsNaN(df.rows[i]["Capacity_MWh"]) /\ df.rows[i]["Power_MW"] = Num(0)
    /\ df_filtered = <<>>

\* create_summary_stats has been called on an empty df_filtered
StatsOfEmpty == stats # <<>> /\ df_filtered = <<>>

\* C12: create_summary_stats on an empty df_filtered raises nothing and
\* returns count 0, both sums 0, both means 0 and three empty frequency
\* mappings.
C12_EmptyStatsAreZero ==
    StatsOfEmpty
        => /\ stats[1].raised = "none"
           /\ stats[1].total_units = 0
           /\ stats[1].total_power = Num(0)
           /\ stats[1].total_capacity = Num(0)
           /\ stats[1].average_power = Num(0)
           /\ stats[1].average_capacity = Num(0)
           /\ DOMAIN stats[1].status_breakdown = {}
           /\ DOMAIN stats[1].technology_breakdown = {}
           /\ DOMAIN stats[1].bundesland_breakdown = {}

\* the same where the frame has the five columns create_summary_stats reads
C12_EmptyStatsAreZeroWithColumns ==
    StatsOfEmpty /\ Range(StatsColumns) \subseteq df.cols
        => /\ stats[1].raised = "none"
           /\ stats[1].total_units = 0
           /\ stats[1].total_power = Num(0)
           /\ stats[1].total_capacity = Num(0)
           /\ stats[1].average_power = Num(0)
           /\ stats[1].average_capacity = Num(0)
           /\ DOMAIN stats[1].status_breakdown = {}
           /\ DOMAIN stats[1].technology_breakdown = {}
           /\ DOMAIN stats[1].bundesland_breakdown = {}

\* C13: no partially written file exists under a name the snapshot selector
\* matches, and load_battery_data never reads one (the snapshot that was in
\* the directory before is whole, so a JSONDecodeError comes from a
\* partially written file only).
C13_NoPartialSnapshotVisible ==
    /\ out.state = "partial"
            => \A i \in DOMAIN listing :
                    listing[i] = OutFile(fetch.script) => ~IsDataFile(listing[i])
    /\ raised # "JSONDecodeError"

\* the pages from page p on, up to the first short page, in page order
RECURSIVE PagesFrom(_, _, _)
PagesFrom(remote, page_size, p) ==
    IF Len(Page(remote, page_size, p)) < page_size
    THEN Page(remote, page_size, p)
    ELSE Page(remote, page_size, p) \o PagesFrom(remote, page_size, p + 1)

\* C14: a snapshot a fetcher has written holds all pages from the first to
\* the first short one, in page order (of which collect_dashboard_data.py
\* keeps the battery technologies), and after a failed request no snapshot
\* is written.
C14_CompleteOrNothing ==
    /\ out.state = "complete"
            => out.recs = ReturnedUnits(fetch.script,
                                        PagesFrom(api, fetch.page_size, 1))
    /\ fetch.logged # <<>> => out.state = "none"

\* C15: the result a call of load_battery_data is answered with from the
\* cache was computed from the file the selector discovers at the call: the
\* cached value was read from the latest matching file of the directory as
\* it is now, or is the 'no data' failure and the directory holds no
\* matching file now.
C15_CachedForDiscoveredSnapshot ==
    pc = "load" /\ cache # <<>>
        => cache[1].opened = load_battery_data(listing, SnapshotContent).opened

\* between two clears of the cache load_battery_data opens a file at most
\* once: a call answered from the cache opens nothing
C15_ReadsOnceBetweenClears ==
    [][pc = "load" /\ cache # <<>> => opened' = opened]_vars

=============================================================================
